---- MODULE Spec2Model ----
(***************************************************************************)
(* A model of the enos flight-plan scenario decoder                        *)
(* (ScenarioDecoder.DecodeScenarioBlocks and the serial and concurrent     *)
(* expansion of a scenario block over its matrix vectors).                 *)
(*                                                                         *)
(* Strings are sequences of character codes, so that Scenario.String()     *)
(* and cmp.Compare on strings are computed, not assumed.  A nil pointer    *)
(* to a vector is the empty option <<>>, a non-nil one is <<vec>>.         *)
(***************************************************************************)
EXTENDS Integers, Sequences, FiniteSets, TLC

VARIABLES
    \* ---- the decoder (type ScenarioDecoder)
    EvalContext,      \* d.EvalContext: the chain of `matrix` bindings, root = <<>>
    DecodeTarget,     \* d.DecodeTarget
    ScenarioFilter,   \* d.ScenarioFilter (a record with a nil flag)
    \* ---- DecodeScenarioBlocks
    blocks,           \* the []*hcl.Block argument
    scenarioBlocks,   \* the DecodedScenarioBlocks being built
    pc,               \* position of the caller's goroutine
    idx,              \* loop index i of DecodeScenarioBlocks
    paths,            \* per decoded block, the decode function that was called
    \* ---- decodeScenariosConcurrent
    ctxCancelled,     \* the caller's ctx is cancelled
    collectCancelled, \* collectCtx is cancelled (cancel() or parent cancelled)
    wpc,              \* position of each worker goroutine
    wparent,          \* the d.EvalContext a worker read for NewChild (line 557)
    wres,             \* a worker's (keep, scenario, diags) from decodeScenario
    cpc,              \* position of the collect goroutine
    scenarios,        \* the local `scenarios` slice
    diags,            \* the local `diags` value
    doneClosed,       \* doneC is closed
    produced,         \* history: every diagnostics value a worker produced
    \* ---- the decode-path choice taken on its own
    pathIn,           \* [matrixIsNil, n, target]
    pathOut,          \* the path chosen for pathIn, "none" before the choice
    \* ---- a sample (type Sample) and the calls made on it
    sampleBlock,      \* the *hcl.Block given to Sample.Decode
    sample,           \* the Sample: [Name, Subsets], Subsets being the slice's array
    spc,              \* "idle", "new" (NewSample), "decoded", "failed"
    sampleDiags,      \* the diagnostics Sample.Decode returned
    declared,         \* history: s.Subsets as Sample.Decode left it
    frameFilter,      \* the *pb.Sample_Filter of the last Frame call
    frameOut,         \* what the last Frame call selected and returned
    frameCalls,       \* number of Frame calls made on the sample
    \* ---- FromHCL on one diagnostic
    snipIn,           \* [file, Subject, Context]: files[Subject.Filename] and the ranges
    snipOut,          \* the pb.Diagnostic's Snippet, once FromHCL has run
    \* ---- the Module objects
    modules,          \* every *Module by its address: the flight plan's and the steps'
    \* ---- DecodedScenarioBlocks.CombinedMatrix
    combined,         \* the call's outcome, and the blocks' matrices before the call
    \* ---- appendSourceSnippets on one diagnostic
    renderIn,         \* the pb.Diagnostic: has a Range, has a Snippet, Code, the offsets
    renderOut,        \* start and end at line 480, once the function has run
    \* ---- FromTFJSON
    tfIn,             \* the []tfjson.Diagnostic argument
    tfOut             \* the []*pb.Diagnostic returned, or the panic

vars == <<EvalContext, DecodeTarget, ScenarioFilter, blocks, scenarioBlocks, pc, idx,
          paths, ctxCancelled, collectCancelled, wpc, wparent, wres, cpc, scenarios,
          diags, doneClosed, produced, pathIn, pathOut,
          sampleBlock, sample, spc, sampleDiags, declared, frameFilter, frameOut,
          frameCalls, snipIn, snipOut, modules, combined, renderIn, renderOut,
          tfIn, tfOut>>

(***************************************************************************)
(* Bounds of the model.                                                    *)
(***************************************************************************)
MaxBlocks == 2
MaxPathVectors == 8001

(***************************************************************************)
(* Decode targets (the ladder of spec section 4.5).                        *)
(***************************************************************************)
DecodeTargetUnset == 0
DecodeTargetScenariosNamesNoVariants == 1
DecodeTargetScenariosMatrixOnly == 2
DecodeTargetScenariosNamesExpandVariants == 3
DecodeTargetScenariosComplete == 4
DecodeTargetAll == 5

\* NewScenarioDecoder accepts exactly the targets above Unset and up to All.
NewScenarioDecoderTargets ==
    { t \in 0..6 :
        /\ ~(t <= DecodeTargetUnset \/ t > DecodeTargetAll)
        /\ ~(/\ t # DecodeTargetScenariosNamesExpandVariants
             /\ t # DecodeTargetScenariosMatrixOnly
             /\ t # DecodeTargetScenariosNamesNoVariants
             /\ t < DecodeTargetScenariosComplete) }

(***************************************************************************)
(* Strings.                                                                *)
(***************************************************************************)
RECURSIVE StrLess(_, _)
StrLess(a, b) ==
    IF a = <<>> THEN b # <<>>
    ELSE IF b = <<>> THEN FALSE
    ELSE IF a[1] # b[1] THEN a[1] < b[1]
    ELSE StrLess(Tail(a), Tail(b))

\* cmp.Compare on strings
Compare(a, b) == IF StrLess(a, b) THEN -1 ELSE IF StrLess(b, a) THEN 1 ELSE 0

RECURSIVE Join(_, _)
Join(strs, sep) ==
    IF strs = <<>> THEN <<>>
    ELSE IF Len(strs) = 1 THEN strs[1]
    ELSE strs[1] \o sep \o Join(Tail(strs), sep)

\* slices.SortStableFunc of s by the string keys key[i] of its elements:
\* the element at position i goes to the rank given by the number of elements
\* that compare lower, or compare equal and come before it.
Rank(key, i) ==
    1 + Cardinality({ j \in DOMAIN key :
                        \/ Compare(key[j], key[i]) < 0
                        \/ (Compare(key[j], key[i]) = 0 /\ j < i) })

SortStableFunc(s, key) ==
    [ r \in 1..Len(s) |-> s[CHOOSE i \in 1..Len(s) : Rank(key, i) = r] ]

IsSortedBy(key) ==
    \A i \in DOMAIN key : \A j \in DOMAIN key : i < j => Compare(key[i], key[j]) <= 0

\* identifier rule [A-Za-z_][A-Za-z0-9_-]*
IsLetter(c) == (c >= 65 /\ c <= 90) \/ (c >= 97 /\ c <= 122) \/ c = 95
IsIdentChar(c) == IsLetter(c) \/ (c >= 48 /\ c <= 57) \/ c = 45
IsValidIdentifier(s) ==
    /\ Len(s) >= 1
    /\ IsLetter(s[1])
    /\ \A i \in 2..Len(s) : IsIdentChar(s[i])

(***************************************************************************)
(* Diagnostics (hcl.Diagnostics): a sequence of records.                   *)
(***************************************************************************)
Diag(sev, summary, label, seen) ==
    [Severity |-> sev, Summary |-> summary, Block |-> label, Matrix |-> seen]

HasErrors(ds) == \E i \in DOMAIN ds : ds[i].Severity = "error"

\* verifyBlockLabelsAreValidIdentifiers
verifyBlockLabelsAreValidIdentifiers(block) ==
    IF IsValidIdentifier(block.Label) THEN <<>>
    ELSE << Diag("error", "block label is invalid", block.Label, <<>>) >>

(***************************************************************************)
(* Matrix algebra.  An Element is [Key, Val], a Vector a sequence of       *)
(* Elements, a *Matrix a record with a nil flag and its Vectors.           *)
(***************************************************************************)
NilMatrix == [nil |-> TRUE, Vectors |-> <<>>]
NewMatrix(vs) == [nil |-> FALSE, Vectors |-> vs]

SeqToSet(s) == { s[i] : i \in DOMAIN s }

RECURSIVE SelectIdx(_, _)
\* the subsequence of s at the positions in keep, in order
SelectIdx(s, keep) ==
    IF s = <<>> THEN <<>>
    ELSE LET rest == SelectIdx(Tail(s), { k - 1 : k \in keep \ {1} })
         IN IF 1 \in keep THEN <<Head(s)>> \o rest ELSE rest

RECURSIVE Flatten(_)
Flatten(ss) == IF ss = <<>> THEN <<>> ELSE Head(ss) \o Flatten(Tail(ss))

\* Matrix.Product
Product(A, B) ==
    Flatten([ i \in DOMAIN A |-> [ j \in DOMAIN B |-> A[i] \o B[j] ] ])

\* Matrix.AddVector: appends without dedup
AddVector(m, v) == NewMatrix(Append(m.Vectors, v))

\* Matrix.UniqueValues: dedup by value, first occurrence wins, order preserved
UniqueValues(m) ==
    NewMatrix(SelectIdx(m.Vectors,
        { i \in DOMAIN m.Vectors : \A j \in 1..(i - 1) : m.Vectors[j] # m.Vectors[i] }))

\* a vector passes the filter when its elements are a superset of all includes
\* and share no element with the excludes
VectorMatches(v, f) ==
    /\ SeqToSet(f.Include) \subseteq SeqToSet(v)
    /\ SeqToSet(f.Exclude) \cap SeqToSet(v) = {}

\* Matrix.Filter
Filter(m, f) ==
    NewMatrix(SelectIdx(m.Vectors,
        { i \in DOMAIN m.Vectors : VectorMatches(m.Vectors[i], f) }))

RECURSIVE ProductFold(_)
\* one single-element vector per axis value, product-folded across the axes
ProductFold(axes) ==
    IF axes = <<>> THEN <<>>
    ELSE LET a == Head(axes)
             col == [ i \in DOMAIN a.Values |-> << [Key |-> a.Key, Val |-> a.Values[i]] >> ]
         IN IF Len(axes) = 1 THEN col ELSE Product(col, ProductFold(Tail(axes)))

\* decodeMatrix: (matrix, diags) of the scenario block's `matrix` block
decodeMatrix(ctx, block) ==
    LET mb == block.matrix IN
    IF ~mb.present THEN [Matrix |-> NilMatrix, diags |-> <<>>]
    ELSE IF ~mb.iterable
    THEN [Matrix |-> NilMatrix,
          diags |-> << Diag("error", "matrix axis is not iterable", block.Label, <<>>) >>]
    ELSE LET prod == ProductFold(mb.axes)
             all == prod \o mb.include
             kept == SelectIdx(all, { i \in DOMAIN all :
                        \A k \in DOMAIN mb.exclude :
                            ~(SeqToSet(mb.exclude[k]) \subseteq SeqToSet(all[i])) })
         IN [Matrix |-> NewMatrix(kept), diags |-> <<>>]

(***************************************************************************)
(* Scenarios.                                                              *)
(***************************************************************************)
\* Vector.String: "k:v" pairs sorted by key, joined by a space
VectorString(v) ==
    LET sorted == SortStableFunc(v, [ i \in DOMAIN v |-> v[i].Key ])
    IN Join([ i \in DOMAIN sorted |-> sorted[i].Key \o <<58>> \o sorted[i].Val ], <<32>>)

\* Scenario.String: "name [k1:v1 k2:v2]", the bare name without variants
String(s) ==
    IF s.Variants # <<>> /\ s.Variants[1] # <<>>
    THEN s.Name \o <<32, 91>> \o VectorString(s.Variants[1]) \o <<93>>
    ELSE s.Name

\* the value the `matrix` variable resolves to in an evaluation context:
\* the innermost binding of the chain, <<>> when there is none
MatrixVar(ctx) == IF ctx = <<>> THEN <<>> ELSE << ctx[Len(ctx)] >>

\* EvalContext.NewChild with Variables = {"matrix": vec.CtyVal()}
NewChildWithMatrix(ctx, vec) == Append(ctx, vec)

(***************************************************************************)
(* Modules and scenario steps.  A Module is [Name, Source, Version,        *)
(* Attrs]; a *Module is an address into `modules`.  A step block is        *)
(* [Label, module, unknownAttr, unknownBlock, variables]: its label, the   *)
(* name after `module.`, whether it has an attribute or a nested block the *)
(* step schema does not know, and its variables map.                       *)
(***************************************************************************)
NoAttrs == [ k \in {} |-> "" ]

Module(name, source, version, attrs) ==
    [Name |-> name, Source |-> source, Version |-> version, Attrs |-> attrs]

\* the flight plan's module table (the modules of the step test, lines 43-66)
FlightPlanModules ==
    [ n \in {"backend", "frontend_red"} |->
        IF n = "backend"
        THEN Module("backend", "./tests/simple_module", "",
                    [ k \in {"driver"} |-> "postgres" ])
        ELSE Module("frontend_red", "hashicorp/qti/frontend-aws", "2.0.0", NoAttrs) ]

\* the address of a flight plan module
ModuleAddr(name) ==
    [kind |-> "fp", module |-> name, label |-> <<>>, vec |-> <<>>, i |-> 0]

\* a step made to hold the flight plan's own *Module
SharedModuleAddr(block, vec, i) == ModuleAddr(block.steps[i].module)

\* the address of the Module that step i of the scenario of (block, vec) holds:
\* a Module allocated for the step
StepModuleAddr(block, vec, i) ==
    [kind |-> "step", module |-> block.steps[i].module, label |-> block.Label,
     vec |-> vec, i |-> i]

\* the heap before any scenario is decoded
FlightPlanHeap ==
    [ a \in { ModuleAddr(n) : n \in DOMAIN FlightPlanModules } |-> FlightPlanModules[a.module] ]

ReservedVariableNames == {"count", "for_each", "depends_on"}

StepBlock(label, module, unknownAttr, unknownBlock, variables) ==
    [Label |-> label, module |-> module, unknownAttr |-> unknownAttr,
     unknownBlock |-> unknownBlock, variables |-> variables]

\* the diagnostics of decoding step i of the scenario block
StepDiags(block, i) ==
    LET st == block.steps[i]
        Err(summary) == << Diag("error", summary, st.Label, <<>>) >>
    IN (IF IsValidIdentifier(st.Label) THEN <<>> ELSE Err("block label is invalid"))
       \o (IF st.unknownAttr THEN Err("unsupported argument") ELSE <<>>)
       \o (IF st.unknownBlock THEN Err("unsupported block type") ELSE <<>>)
       \o (IF st.module \in DOMAIN FlightPlanModules THEN <<>>
           ELSE Err("unknown module"))
       \o (IF DOMAIN st.variables \cap ReservedVariableNames = {} THEN <<>>
           ELSE Err("reserved meta-argument"))
       \o (IF \E j \in 1..(i - 1) : block.steps[j].Label = st.Label
           THEN Err("redeclared step in scenario") ELSE <<>>)

RECURSIVE AllStepDiags(_, _)
AllStepDiags(block, i) ==
    IF i > Len(block.steps) THEN <<>> ELSE StepDiags(block, i) \o AllStepDiags(block, i + 1)

\* the steps are decoded from ScenariosComplete up (spec section 4.5)
DecodesSteps(target) == target >= DecodeTargetScenariosComplete

\* the scenario's Steps: in declared order, each holding its Module's address
ScenarioSteps(block, vec, target) ==
    IF DecodesSteps(target) /\ ~HasErrors(AllStepDiags(block, 1))
    THEN [ i \in DOMAIN block.steps |->
             [Name |-> block.steps[i].Label, Module |-> StepModuleAddr(block, vec, i)] ]
    ELSE <<>>

\* the module's attrs with the step's variables set over them
OverrideAttrs(attrs, variables) ==
    [ k \in DOMAIN attrs \cup DOMAIN variables |->
        IF k \in DOMAIN variables THEN variables[k] ELSE attrs[k] ]

\* the heap after the Modules of one scenario's steps are stored, from step i on:
\* the referenced module is read, its attrs overridden by the step's variables,
\* and the result written at the address the step holds
RECURSIVE StoreStepModules(_, _, _, _)
StoreStepModules(heap, block, steps, i) ==
    IF i > Len(steps) THEN heap
    ELSE LET src == heap[ModuleAddr(block.steps[i].module)]
             new == [src EXCEPT !.Attrs = OverrideAttrs(src.Attrs, block.steps[i].variables)]
             heap1 == [ a \in DOMAIN heap \cup {steps[i].Module} |->
                          IF a = steps[i].Module THEN new ELSE heap[a] ]
         IN StoreStepModules(heap1, block, steps, i + 1)

\* the heap after the steps of the scenarios, from scenario n on, are stored
RECURSIVE StoreScenarioModules(_, _, _, _)
StoreScenarioModules(heap, block, scs, n) ==
    IF n > Len(scs) THEN heap
    ELSE StoreScenarioModules(StoreStepModules(heap, block, scs[n].Steps, 1),
                              block, scs, n + 1)

\* Scenario.decode(block, ctx, target): the scenario body is evaluated against
\* ctx; it fails for the matrix values the block's body cannot take, and, when
\* the steps are decoded, for every invalid step.
ScenarioDecode(block, ctx, target) ==
    (IF MatrixVar(ctx) \in block.bad
     THEN << Diag("error", "scenario body failed to decode", block.Label, MatrixVar(ctx)) >>
     ELSE <<>>)
    \o (IF DecodesSteps(target) THEN AllStepDiags(block, 1) ELSE <<>>)

(***************************************************************************)
(* The choice of the decode path (DecodeScenarioBlocks, lines 478-507).    *)
(***************************************************************************)
DecodePath(matrixIsNil, n, target) ==
    IF matrixIsNil \/ (~matrixIsNil \/ n < 1)
    THEN "serial"
    ELSE IF target = DecodeTargetScenariosNamesExpandVariants
    THEN (IF n < 8000 THEN "serial" ELSE "concurrent")
    ELSE IF target \in {DecodeTargetScenariosComplete, DecodeTargetAll}
    THEN (IF n < 100 THEN "serial" ELSE "concurrent")
    ELSE "unknown"

(***************************************************************************)
(* Inputs: scenario blocks, matrix blocks and scenario filters.            *)
(* Keys: f = <<102>>, g = <<103>>; values: x = <<120>>, y = <<121>>;       *)
(* labels: a = <<97>>, b = <<98>>, and the invalid label b: = <<98, 58>>.  *)
(***************************************************************************)
El(k, v) == [Key |-> k, Val |-> v]
Ex == El(<<102>>, <<120>>)
Ey == El(<<102>>, <<121>>)

MatrixBlock(present, iterable, axes, include, exclude) ==
    [present |-> present, iterable |-> iterable, axes |-> axes,
     include |-> include, exclude |-> exclude]

NoMatrixBlock == MatrixBlock(FALSE, TRUE, <<>>, <<>>, <<>>)
\* matrix { f = "x" }: the axis is not iterable
BadMatrixBlock == MatrixBlock(TRUE, FALSE, <<>>, <<>>, <<>>)
\* matrix { f = ["y", "x"] }
MatrixYX == MatrixBlock(TRUE, TRUE, << [Key |-> <<102>>, Values |-> << <<121>>, <<120>> >>] >>, <<>>, <<>>)
\* matrix { f = ["x"] }
MatrixX == MatrixBlock(TRUE, TRUE, << [Key |-> <<102>>, Values |-> << <<120>> >>] >>, <<>>, <<>>)
\* matrix { f = ["x"]  include { f = ["x"] } }
MatrixDup == MatrixBlock(TRUE, TRUE, << [Key |-> <<102>>, Values |-> << <<120>> >>] >>, << <<Ex>> >>, <<>>)
\* matrix { f = ["x"]  exclude { f = ["x"] } }
MatrixEmpty == MatrixBlock(TRUE, TRUE, << [Key |-> <<102>>, Values |-> << <<120>> >>] >>, <<>>, << <<Ex>> >>)

HclBlock(label, mb, bad) == [Label |-> label, matrix |-> mb, bad |-> bad, steps |-> <<>>]
HclBlockWithSteps(label, mb, steps) ==
    [Label |-> label, matrix |-> mb, bad |-> {}, steps |-> steps]

\* the scenario bodies: a matrix block and the matrix values the body fails on
Bodies ==
    { <<NoMatrixBlock, {}>>, <<NoMatrixBlock, {<<>>}>>, <<BadMatrixBlock, {}>>,
      <<MatrixYX, {}>>, <<MatrixYX, {<< <<Ex>> >>}>>, <<MatrixX, {}>>,
      <<MatrixDup, {}>>, <<MatrixEmpty, {}>> }

HclBlocks ==
    { HclBlock(<<97>>, b[1], b[2]) : b \in Bodies }
    \cup { HclBlock(<<98>>, NoMatrixBlock, {}), HclBlock(<<98>>, MatrixYX, {}),
           HclBlock(<<98>>, MatrixX, {}),
           HclBlock(<<98, 58>>, NoMatrixBlock, {}), HclBlock(<<98, 58>>, MatrixYX, {}) }

NilFilter == [nil |-> TRUE, Name |-> <<>>, Include |-> <<>>, Exclude |-> <<>>]
NewFilter(name, incl, excl) == [nil |-> FALSE, Name |-> name, Include |-> incl, Exclude |-> excl]

\* no filter, "a", "f:x" and "!f:x"
ScenarioFilters ==
    { NilFilter, NewFilter(<<97>>, <<>>, <<>>), NewFilter(<<>>, <<Ex>>, <<>>),
      NewFilter(<<>>, <<>>, <<Ex>>) }

SeqsUpTo(S, n) == UNION { [1..k -> S] : k \in 0..n }

(***************************************************************************)
(* DecodeScenarioBlocks and the serial decode.                             *)
(***************************************************************************)
\* filterScenarioBlocks, lines 523-545.  Block is the index of the hcl block.
RECURSIVE filterFrom(_, _, _, _)
filterFrom(bs, i, f, target) ==
    IF i > Len(bs) THEN <<>>
    ELSE IF ~f.nil /\ f.Name # <<>> /\ bs[i].Label # f.Name
    THEN filterFrom(bs, i + 1, f, target)
    ELSE << [Name |-> bs[i].Label, Block |-> i, DecodeTarget |-> target,
             Matrix |-> NilMatrix, Scenarios |-> <<>>,
             Diagnostics |-> verifyBlockLabelsAreValidIdentifiers(bs[i])] >>
         \o filterFrom(bs, i + 1, f, target)

filterScenarioBlocks(bs, f, target) == filterFrom(bs, 1, f, target)

\* the guard of the matrix filter, lines 462-464
FilterGuard(m, f) == ~m.nil /\ Len(m.Vectors) > 1 /\ ~f.nil

\* lines 457-472: decode and filter the matrix; skip is the `continue` of line 469
MatrixStage(sb, block, ctx, target, f) ==
    IF target >= DecodeTargetScenariosMatrixOnly
    THEN LET r == decodeMatrix(ctx, block)
             sb1 == [sb EXCEPT !.Matrix = r.Matrix,
                               !.Diagnostics = sb.Diagnostics \o r.diags]
         IN IF FilterGuard(sb1.Matrix, f)
            THEN LET m == Filter(sb1.Matrix, f)
                 IN [sb |-> [sb1 EXCEPT !.Matrix = m],
                     skip |-> m.nil \/ Len(m.Vectors) < 1]
            ELSE [sb |-> sb1, skip |-> FALSE]
    ELSE [sb |-> sb, skip |-> FALSE]

\* a decoder that stops one level too low
StopsBeforeMatrixOnly(target) == target < DecodeTargetScenariosMatrixOnly

\* line 474: the decode stops below ScenariosNamesExpandVariants
StopsBeforeExpand(target) == target < DecodeTargetScenariosNamesExpandVariants

\* a decodeScenario that always reports the scenario as decoded
decodeScenarioKeepsAlways(vec, block, ctx, target) ==
    LET ctx1 == IF vec # <<>> THEN NewChildWithMatrix(ctx, vec[1]) ELSE ctx
        ds == ScenarioDecode(block, ctx1, target)
    IN [keep |-> TRUE,
        scenario |-> [Name |-> block.Label, Variants |-> vec, matrix |-> MatrixVar(ctx1),
                      Steps |-> ScenarioSteps(block, vec, target)],
        diags |-> ds,
        ctx |-> ctx1]

\* decodeScenario, lines 548-567, run by one goroutine without interference:
\* the decoder's EvalContext is replaced by the child that binds `matrix`.
decodeScenario(vec, block, ctx, target) ==
    LET ctx1 == IF vec # <<>> THEN NewChildWithMatrix(ctx, vec[1]) ELSE ctx
        ds == ScenarioDecode(block, ctx1, target)
    IN [keep |-> ~HasErrors(ds),
        scenario |-> [Name |-> block.Label, Variants |-> vec, matrix |-> MatrixVar(ctx1),
                      Steps |-> ScenarioSteps(block, vec, target)],
        diags |-> ds,
        ctx |-> ctx1]

\* a serial loop that appends the scenario whatever decodeScenario's keep says
SerialStepKeepsAll(st, vec, block, target) ==
    LET r == decodeScenario(vec, block, st.ctx, target)
    IN [sb |-> [st.sb EXCEPT !.Diagnostics = st.sb.Diagnostics \o r.diags,
                             !.Scenarios = Append(st.sb.Scenarios, r.scenario)],
        ctx |-> r.ctx]

\* one iteration of the serial loop, lines 586-590
SerialStep(st, vec, block, target) ==
    LET r == decodeScenario(vec, block, st.ctx, target)
    IN [sb |-> [st.sb EXCEPT !.Diagnostics = st.sb.Diagnostics \o r.diags,
                             !.Scenarios = IF r.keep THEN Append(st.sb.Scenarios, r.scenario)
                                           ELSE st.sb.Scenarios],
        ctx |-> r.ctx]

RECURSIVE SerialLoop(_, _, _, _)
SerialLoop(st, i, block, target) ==
    IF i > Len(st.sb.Matrix.Vectors) THEN st
    ELSE SerialLoop(SerialStep(st, << st.sb.Matrix.Vectors[i] >>, block, target),
                    i + 1, block, target)

\* decodeScenariosSerial, lines 572-592: the block and the decoder's context after it
decodeScenariosSerial(sb, block, ctx, target) ==
    IF sb.Matrix.nil \/ Len(sb.Matrix.Vectors) < 1
    THEN SerialStep([sb |-> sb, ctx |-> ctx], <<>>, block, target)
    ELSE SerialLoop([sb |-> sb, ctx |-> ctx], 1, block, target)

\* the scenarios left in decode order
ScenariosUnsorted(ss) == ss

\* lines 509-511
SortScenarios(ss) == SortStableFunc(ss, [ i \in DOMAIN ss |-> String(ss[i]) ])

\* lines 514-516
SortBlocksByName(sbs) == SortStableFunc(sbs, [ i \in DOMAIN sbs |-> sbs[i].Name ])

ConcIdle ==
    /\ ctxCancelled = FALSE
    /\ collectCancelled = FALSE
    /\ wpc = <<>>
    /\ wparent = <<>>
    /\ wres = <<>>
    /\ cpc = "unstarted"
    /\ scenarios = <<>>
    /\ diags = <<>>
    /\ doneClosed = FALSE
    /\ produced = {}

PathIdle ==
    /\ pathIn = [matrixIsNil |-> TRUE, n |-> 0, target |-> DecodeTargetUnset]
    /\ pathOut = "none"

\* no sample has been constructed
SampleIdle ==
    /\ sampleBlock = [Label |-> <<>>, bodyOK |-> TRUE, attrsOK |-> TRUE, subsets |-> <<>>]
    /\ sample = [Name |-> <<>>, Subsets |-> <<>>]
    /\ spc = "idle"
    /\ sampleDiags = <<>>
    /\ declared = <<>>
    /\ frameFilter = [nil |-> TRUE, Subsets |-> <<>>, ExcludeSubsets |-> <<>>]
    /\ frameOut = [called |-> FALSE, selected |-> <<>>, frame |-> <<>>, diags |-> <<>>]
    /\ frameCalls = 0

\* FromHCL has not been given a diagnostic
SnippetIdle ==
    /\ snipIn = [file |-> <<>>, Subject |-> [Start |-> 0, End |-> 0, EndIsZero |-> TRUE],
                 Context |-> <<>>]
    /\ snipOut = [called |-> FALSE, hasSnippet |-> FALSE, Code |-> <<>>,
                  HighlightStartOffset |-> 0, HighlightEndOffset |-> 0]

\* CombinedMatrix has not been called
CombinedIdle ==
    combined = [called |-> FALSE, panicked |-> FALSE, result |-> NilMatrix, before |-> <<>>]

\* appendSourceSnippets has not been given a diagnostic
RenderIdle ==
    /\ renderIn = [hasRange |-> FALSE, hasSnippet |-> FALSE, Code |-> <<>>,
                   HighlightStartOffset |-> 0, HighlightEndOffset |-> 0]
    /\ renderOut = [called |-> FALSE, sliced |-> FALSE, start |-> 0, end |-> 0]

\* FromTFJSON has not been called
TFIdle ==
    /\ tfIn = <<>>
    /\ tfOut = [called |-> FALSE, panicked |-> FALSE, out |-> <<>>]

DiagIdle == RenderIdle /\ TFIdle

OtherIdle ==
    SampleIdle /\ SnippetIdle /\ modules = FlightPlanHeap /\ CombinedIdle /\ DiagIdle

concVars == <<ctxCancelled, collectCancelled, wpc, wparent, wres, cpc, scenarios,
              diags, doneClosed, produced>>
pathVars == <<pathIn, pathOut>>
sampleVars == <<sampleBlock, sample, spc, sampleDiags, declared, frameFilter, frameOut,
                frameCalls>>
snippetVars == <<snipIn, snipOut>>
diagVars == <<renderIn, renderOut, tfIn, tfOut>>
otherVars == <<sampleVars, snippetVars, modules, combined, diagVars>>
decoderVars == <<DecodeTarget, ScenarioFilter>>

\* a decoder from NewScenarioDecoder and a call of DecodeScenarioBlocks(ctx, blocks)
Init ==
    /\ EvalContext = <<>>
    /\ DecodeTarget \in NewScenarioDecoderTargets
    /\ ScenarioFilter \in ScenarioFilters
    /\ blocks \in SeqsUpTo(HclBlocks, MaxBlocks)
    /\ scenarioBlocks = <<>>
    /\ pc = "entry"
    /\ idx = 0
    /\ paths = <<>>
    /\ ConcIdle
    /\ PathIdle
    /\ OtherIdle

\* lines 451-455
EnterDecodeScenarioBlocks ==
    /\ pc = "entry"
    /\ IF Len(blocks) < 1
       THEN /\ pc' = "done"
            /\ UNCHANGED <<scenarioBlocks, idx>>
       ELSE /\ scenarioBlocks' = filterScenarioBlocks(blocks, ScenarioFilter, DecodeTarget)
            /\ idx' = 1
            /\ pc' = "loop"
    /\ UNCHANGED <<EvalContext, blocks, paths>>
    /\ UNCHANGED <<decoderVars, concVars, pathVars, otherVars>>

\* one iteration of the loop of lines 456-512
DecodeBlock ==
    /\ pc = "loop"
    /\ idx <= Len(scenarioBlocks)
    /\ LET block == blocks[scenarioBlocks[idx].Block]
           ms == MatrixStage(scenarioBlocks[idx], block, EvalContext, DecodeTarget,
                             ScenarioFilter)
           path == DecodePath(ms.sb.Matrix.nil, Len(ms.sb.Matrix.Vectors), DecodeTarget)
       IN IF ms.skip \/ StopsBeforeExpand(DecodeTarget)
          THEN /\ scenarioBlocks' = [scenarioBlocks EXCEPT ![idx] = ms.sb]
               /\ paths' = Append(paths, "none")
               /\ idx' = idx + 1
               /\ UNCHANGED <<EvalContext, pc, modules>>
          ELSE IF path = "serial"
          THEN LET r == decodeScenariosSerial(ms.sb, block, EvalContext, DecodeTarget)
               IN /\ scenarioBlocks' = [scenarioBlocks EXCEPT ![idx] =
                        [r.sb EXCEPT !.Scenarios = SortScenarios(r.sb.Scenarios)]]
                  /\ EvalContext' = r.ctx
                  /\ modules' = StoreScenarioModules(modules, block, r.sb.Scenarios, 1)
                  /\ paths' = Append(paths, "serial")
                  /\ idx' = idx + 1
                  /\ UNCHANGED pc
          ELSE IF path = "concurrent"
          THEN \* the call of decodeScenariosConcurrent, whose goroutines are
               \* the actions of NextConcurrent
               /\ scenarioBlocks' = [scenarioBlocks EXCEPT ![idx] = ms.sb]
               /\ paths' = Append(paths, "concurrent")
               /\ pc' = "conc_entry"
               /\ UNCHANGED <<EvalContext, idx, modules>>
          ELSE /\ scenarioBlocks' = [scenarioBlocks EXCEPT ![idx] =
                     [ms.sb EXCEPT !.Diagnostics = Append(ms.sb.Diagnostics,
                         Diag("error", "unknown scenario decode mode", block.Label, <<>>))]]
               /\ paths' = Append(paths, "unknown")
               /\ idx' = idx + 1
               /\ UNCHANGED <<EvalContext, pc, modules>>
    /\ UNCHANGED blocks
    /\ UNCHANGED <<decoderVars, concVars, pathVars, sampleVars, snippetVars, combined, diagVars>>

\* lines 514-518: sort the blocks by name and return
ReturnScenarioBlocks ==
    /\ pc = "loop"
    /\ idx > Len(scenarioBlocks)
    /\ scenarioBlocks' = SortBlocksByName(scenarioBlocks)
    /\ pc' = "done"
    /\ UNCHANGED <<EvalContext, blocks, idx, paths>>
    /\ UNCHANGED <<decoderVars, concVars, pathVars, otherVars>>

\* lines 435-437: every vector of sm added to the Matrix m points to, which
\* is the Matrix of block `owner`
RECURSIVE AddVectors(_, _, _, _)
AddVectors(d, owner, sm, j) ==
    IF j > Len(sm.Vectors) THEN d
    ELSE AddVectors([d EXCEPT ![owner].Matrix = AddVector(d[owner].Matrix, sm.Vectors[j])],
                    owner, sm, j + 1)

\* the loop of lines 430-439 from block i on; st is [d, owner, panicked, acc]:
\* the blocks, the block whose Matrix m points to (0 when m is nil), whether
\* sm.Vectors was read through a nil sm, and the Matrix m points to
RECURSIVE CombinedLoop(_, _)
CombinedLoop(st, i) ==
    IF i > Len(st.d) \/ st.panicked THEN st
    ELSE LET sm == st.d[i].Matrix
         IN IF st.owner = 0
            THEN CombinedLoop([st EXCEPT !.owner = IF sm.nil THEN 0 ELSE i,
                                         !.acc = sm], i + 1)
            ELSE IF sm.nil THEN [st EXCEPT !.panicked = TRUE]
            ELSE LET d1 == AddVectors(st.d, st.owner, sm, 1)
                 IN CombinedLoop([st EXCEPT !.d = d1, !.acc = d1[st.owner].Matrix], i + 1)

\* DecodedScenarioBlocks.CombinedMatrix, lines 424-446: the blocks after the
\* call, whether it panicked, and the *Matrix returned
CombinedMatrix(d) ==
    IF Len(d) < 1 THEN [d |-> d, panicked |-> FALSE, result |-> NilMatrix]
    ELSE LET st == CombinedLoop([d |-> d, owner |-> 0, panicked |-> FALSE,
                                 acc |-> NilMatrix], 1)
         IN [d |-> st.d, panicked |-> st.panicked,
             result |-> IF st.panicked \/ st.owner = 0 THEN NilMatrix
                        ELSE UniqueValues(st.acc)]

\* the caller of DecodeScenarioBlocks calls CombinedMatrix on what it returned
CallCombinedMatrix ==
    /\ pc = "done"
    /\ LET r == CombinedMatrix(scenarioBlocks)
       IN /\ scenarioBlocks' = r.d
          /\ combined' = [called |-> TRUE, panicked |-> r.panicked, result |-> r.result,
                          before |-> [ i \in DOMAIN scenarioBlocks |-> scenarioBlocks[i].Matrix ]]
    /\ pc' = "combined"
    /\ UNCHANGED <<EvalContext, blocks, idx, paths>>
    /\ UNCHANGED <<decoderVars, concVars, pathVars, sampleVars, snippetVars, modules, diagVars>>

Next ==
    EnterDecodeScenarioBlocks \/ DecodeBlock \/ ReturnScenarioBlocks \/ CallCombinedMatrix

Spec == Init /\ [][Next]_vars

(***************************************************************************)
(* The decode-path choice on its own, for every matrix size up to          *)
(* MaxPathVectors: the inputs are those that reach line 479, a target of   *)
(* ScenariosNamesExpandVariants or higher and a matrix that is nil or has  *)
(* n vectors.                                                              *)
(***************************************************************************)
blockVars == <<EvalContext, blocks, scenarioBlocks, pc, idx, paths>>

InitPath ==
    /\ EvalContext = <<>>
    /\ DecodeTarget \in { t \in NewScenarioDecoderTargets : ~StopsBeforeExpand(t) }
    /\ ScenarioFilter = NilFilter
    /\ blocks = <<>>
    /\ scenarioBlocks = <<>>
    /\ pc = "path"
    /\ idx = 0
    /\ paths = <<>>
    /\ ConcIdle
    /\ pathIn \in { [matrixIsNil |-> nl, n |-> n, target |-> DecodeTarget] :
                      nl \in BOOLEAN, n \in 0..MaxPathVectors }
    /\ pathIn.matrixIsNil => pathIn.n = 0
    /\ pathOut = "none"
    /\ OtherIdle

ChoosePath ==
    /\ pc = "path"
    /\ pathOut = "none"
    /\ pathOut' = DecodePath(pathIn.matrixIsNil, pathIn.n, pathIn.target)
    /\ UNCHANGED <<pathIn, otherVars, decoderVars, blockVars, concVars>>

NextPath == ChoosePath

SpecPath == InitPath /\ [][NextPath]_vars

(***************************************************************************)
(* decodeScenariosConcurrent, lines 596-646, called on one scenario block  *)
(* whose matrix has up to MaxWorkers vectors.  The caller, the collect     *)
(* goroutine and one worker goroutine per vector are interleaved; a send   *)
(* on the unbuffered diagC or scenarioC is one step with the receive in    *)
(* collect's select.  The two accesses of a worker to d.EvalContext        *)
(* (lines 557/561 and line 564) are unsynchronised, so they are separate   *)
(* steps.                                                                  *)
(***************************************************************************)
MaxWorkers == 2

\* matrix { f = [...] } with the first n of the values y, x, z
AxisValues == << <<121>>, <<120>>, <<122>>, <<119>> >>
MatrixOfSize(n) ==
    MatrixBlock(TRUE, TRUE, << [Key |-> <<102>>, Values |-> SubSeq(AxisValues, 1, n)] >>,
                <<>>, <<>>)

\* the block as DecodeScenarioBlocks hands it over: labels verified, matrix decoded
PreparedBlock(block, target) ==
    MatrixStage(filterScenarioBlocks(<<block>>, NilFilter, target)[1], block, <<>>,
                target, NilFilter).sb

Workers == DOMAIN wpc

NoResult ==
    [keep |-> FALSE, scenario |-> [Name |-> <<>>, Variants |-> <<>>, matrix |-> <<>>],
     diags |-> <<>>]

\* ctx.Done() of collectCtx: cancel() was called or the parent is cancelled
CollectCtxDone == collectCancelled \/ ctxCancelled

InitConcurrent ==
    /\ EvalContext = <<>>
    /\ DecodeTarget \in { t \in NewScenarioDecoderTargets : ~StopsBeforeExpand(t) }
    /\ ScenarioFilter = NilFilter
    /\ \E n \in 0..MaxWorkers :
         \E bad \in SUBSET { << <<El(<<102>>, AxisValues[i])>> >> : i \in 1..n } :
            blocks = << HclBlock(<<97>>, MatrixOfSize(n), bad) >>
    /\ scenarioBlocks = << PreparedBlock(blocks[1], DecodeTarget) >>
    /\ pc = "conc_entry"
    /\ idx = 1
    /\ paths = <<"concurrent">>
    /\ ConcIdle
    /\ PathIdle
    /\ OtherIdle

\* lines 597-601
ConcDelegateSerial ==
    /\ pc = "conc_entry"
    /\ LET sb == scenarioBlocks[idx] IN
       /\ sb.Matrix.nil \/ Len(sb.Matrix.Vectors) < 1
       /\ LET r == decodeScenariosSerial(sb, blocks[sb.Block], EvalContext, DecodeTarget)
          IN /\ scenarioBlocks' = [scenarioBlocks EXCEPT ![idx] = r.sb]
             /\ EvalContext' = r.ctx
    /\ pc' = "conc_returned"
    /\ UNCHANGED <<blocks, idx, paths, decoderVars, concVars, pathVars, otherVars>>

\* lines 603-628: the channels and locals are made and collect is started
ConcStart ==
    /\ pc = "conc_entry"
    /\ LET sb == scenarioBlocks[idx] IN
       /\ ~(sb.Matrix.nil \/ Len(sb.Matrix.Vectors) < 1)
       /\ wpc' = [ w \in 1..Len(sb.Matrix.Vectors) |-> "unspawned" ]
       /\ wparent' = [ w \in 1..Len(sb.Matrix.Vectors) |-> <<>> ]
       /\ wres' = [ w \in 1..Len(sb.Matrix.Vectors) |-> NoResult ]
    /\ scenarios' = <<>>
    /\ diags' = <<>>
    /\ cpc' = "select"
    /\ pc' = "spawn"
    /\ UNCHANGED <<EvalContext, blocks, scenarioBlocks, idx, paths, ctxCancelled,
                   collectCancelled, doneClosed, produced, decoderVars, pathVars, otherVars>>

\* lines 630-640: wg.Add(1) and go func(vec) for the next vector
SpawnWorker ==
    /\ pc = "spawn"
    /\ \E w \in Workers :
         /\ wpc[w] = "unspawned"
         /\ \A u \in Workers : u < w => wpc[u] # "unspawned"
         /\ wpc' = [wpc EXCEPT ![w] = "readCtx"]
    /\ UNCHANGED <<blockVars, decoderVars, pathVars, otherVars, ctxCancelled, collectCancelled,
                   wparent, wres, cpc, scenarios, diags, doneClosed, produced>>

\* line 557: matrixCtx := d.EvalContext.NewChild() reads the decoder's context
WorkerReadCtx(w) ==
    /\ wpc[w] = "readCtx"
    /\ wparent' = [wparent EXCEPT ![w] = EvalContext]
    /\ wpc' = [wpc EXCEPT ![w] = "writeCtx"]
    /\ UNCHANGED <<blockVars, decoderVars, pathVars, otherVars, ctxCancelled, collectCancelled,
                   wres, cpc, scenarios, diags, doneClosed, produced>>

\* lines 558-561: d.EvalContext = matrixCtx
WorkerWriteCtx(w) ==
    /\ wpc[w] = "writeCtx"
    /\ EvalContext' = NewChildWithMatrix(wparent[w], scenarioBlocks[idx].Matrix.Vectors[w])
    /\ wpc' = [wpc EXCEPT ![w] = "decode"]
    /\ UNCHANGED <<blocks, scenarioBlocks, pc, idx, paths, decoderVars, pathVars, otherVars,
                   ctxCancelled, collectCancelled, wparent, wres, cpc, scenarios, diags,
                   doneClosed, produced>>

\* lines 564-566: scenario.decode(block, d.EvalContext.NewChild(), d.DecodeTarget)
\* against the decoder's context as it is now
WorkerDecode(w) ==
    /\ wpc[w] = "decode"
    /\ LET sb == scenarioBlocks[idx]
           block == blocks[sb.Block]
           ds == ScenarioDecode(block, EvalContext, DecodeTarget)
       IN /\ wres' = [wres EXCEPT ![w] =
                 [keep |-> ~HasErrors(ds),
                  scenario |-> [Name |-> block.Label, Variants |-> << sb.Matrix.Vectors[w] >>,
                                matrix |-> MatrixVar(EvalContext)],
                  diags |-> ds]]
          /\ produced' = produced \cup {ds}
    /\ wpc' = [wpc EXCEPT ![w] = "sendDiag"]
    /\ UNCHANGED <<blockVars, decoderVars, pathVars, otherVars, ctxCancelled, collectCancelled,
                   wparent, cpc, scenarios, diags, doneClosed>>

\* line 635 with line 620-621: diagC <- diags meets collect's receive
SendDiag(w) ==
    /\ wpc[w] = "sendDiag"
    /\ cpc = "select"
    /\ diags' = diags \o wres[w].diags
    /\ wpc' = [wpc EXCEPT ![w] = IF wres[w].keep THEN "sendScenario" ELSE "done"]
    /\ UNCHANGED <<blockVars, decoderVars, pathVars, otherVars, ctxCancelled, collectCancelled,
                   wparent, wres, cpc, scenarios, doneClosed, produced>>

\* line 637 with lines 622-623: scenarioC <- scenario meets collect's receive;
\* the worker returns and its deferred wg.Done() runs
SendScenario(w) ==
    /\ wpc[w] = "sendScenario"
    /\ cpc = "select"
    /\ scenarios' = Append(scenarios, wres[w].scenario)
    /\ wpc' = [wpc EXCEPT ![w] = "done"]
    /\ UNCHANGED <<blockVars, decoderVars, pathVars, otherVars, ctxCancelled, collectCancelled,
                   wparent, wres, cpc, diags, doneClosed, produced>>

\* lines 616-619: collect sees collectCtx.Done(), closes doneC and returns
CollectDone ==
    /\ cpc = "select"
    /\ CollectCtxDone
    /\ doneClosed' = TRUE
    /\ cpc' = "returned"
    /\ UNCHANGED <<blockVars, decoderVars, pathVars, otherVars, ctxCancelled, collectCancelled,
                   wpc, wparent, wres, scenarios, diags, produced>>

\* lines 642-643: wg.Wait() returns once every worker has returned, then cancel()
WaitWorkers ==
    /\ pc = "spawn"
    /\ \A w \in Workers : wpc[w] = "done"
    /\ collectCancelled' = TRUE
    /\ pc' = "recvDone"
    /\ UNCHANGED <<EvalContext, blocks, scenarioBlocks, idx, paths, decoderVars, pathVars, otherVars,
                   ctxCancelled, wpc, wparent, wres, cpc, scenarios, diags, doneClosed,
                   produced>>

\* lines 644-646: <-doneC, the scenarios are appended and the function returns
ReceiveDone ==
    /\ pc = "recvDone"
    /\ doneClosed
    /\ scenarioBlocks' = [scenarioBlocks EXCEPT ![idx].Scenarios = @ \o scenarios]
    /\ pc' = "conc_returned"
    /\ UNCHANGED <<EvalContext, blocks, idx, paths, decoderVars, pathVars, otherVars, concVars>>

\* the caller's context is cancelled, at any moment of the call
CancelCtx ==
    /\ pc \in {"conc_entry", "spawn", "recvDone"}
    /\ ~ctxCancelled
    /\ ctxCancelled' = TRUE
    /\ UNCHANGED <<blockVars, decoderVars, pathVars, otherVars, collectCancelled, wpc, wparent, wres,
                   cpc, scenarios, diags, doneClosed, produced>>

NextConcurrent ==
    \/ ConcDelegateSerial
    \/ ConcStart
    \/ SpawnWorker
    \/ \E w \in Workers : WorkerReadCtx(w)
    \/ \E w \in Workers : WorkerWriteCtx(w)
    \/ \E w \in Workers : WorkerDecode(w)
    \/ \E w \in Workers : SendDiag(w)
    \/ \E w \in Workers : SendScenario(w)
    \/ CollectDone
    \/ WaitWorkers
    \/ ReceiveDone
    \/ CancelCtx

SpecConcurrent == InitConcurrent /\ [][NextConcurrent]_vars

(***************************************************************************)
(* Samples (sample.go).  A SampleSubset is [Name]; s.Subsets is the array  *)
(* behind the slice, whose length Frame and filterSubsets never change.   *)
(* A *pb.Sample_Filter has a nil flag and two lists of subset names, each *)
(* an option: <<>> is a nil list, <<l>> the list l.                        *)
(***************************************************************************)
MaxFrameCalls == 2

SubsetBlock(label, ok) == [Label |-> label, ok |-> ok]
SampleBlock(label, bodyOK, attrsOK, subsets) ==
    [Label |-> label, bodyOK |-> bodyOK, attrsOK |-> attrsOK, subsets |-> subsets]

\* NewSample, lines 38-42
NewSample == [Name |-> <<>>, Subsets |-> <<>>]

\* SampleSubset.decode: the subset named by the block's label, or an error
SampleSubsetDecode(sub) ==
    IF sub.ok THEN [ss |-> [Name |-> sub.Label], diags |-> <<>>]
    ELSE [ss |-> [Name |-> sub.Label],
          diags |-> << Diag("error", "invalid sample subset", sub.Label, <<>>) >>]

\* a subset that skips the lookup of line 88
NeverDeclared(names, name) == FALSE

\* line 88: _, ok := names[ss.Name]
AlreadyDeclared(names, name) == name \in names

\* the loop of lines 74-100 from subset block i on
RECURSIVE SampleDecodeLoop(_, _, _)
SampleDecodeLoop(st, subsets, i) ==
    IF i > Len(subsets) THEN st
    ELSE LET labelDiags == verifyBlockLabelsAreValidIdentifiers(subsets[i])
             d1 == st.diags \o labelDiags
         IN IF HasErrors(labelDiags)
            THEN SampleDecodeLoop([st EXCEPT !.diags = d1], subsets, i + 1)
            ELSE LET r == SampleSubsetDecode(subsets[i])
                     d2 == d1 \o r.diags
                 IN IF HasErrors(r.diags) THEN [st EXCEPT !.diags = d2]
                    ELSE IF AlreadyDeclared(st.names, r.ss.Name)
                    THEN [st EXCEPT !.diags = Append(d2,
                             Diag("error", "redeclared sample subset", r.ss.Name, <<>>))]
                    ELSE SampleDecodeLoop(
                             [st EXCEPT !.diags = d2,
                                        !.names = @ \cup {r.ss.Name},
                                        !.Subsets = Append(@, r.ss)],
                             subsets, i + 1)

\* Sample.Decode, lines 45-103: the sample after the call and the diagnostics
SampleDecode(s, block) ==
    LET s1 == [s EXCEPT !.Name = block.Label]
    IN IF ~block.bodyOK
       THEN [sample |-> s1,
             diags |-> << Diag("error", "invalid sample body", block.Label, <<>>) >>]
       ELSE IF ~block.attrsOK
       THEN [sample |-> s1,
             diags |-> << Diag("error", "invalid sample attributes", block.Label, <<>>) >>]
       ELSE IF Len(block.subsets) < 1
       THEN [sample |-> s1,
             diags |-> << Diag("error", "missing required subset", block.Label, <<>>) >>]
       ELSE LET st == SampleDecodeLoop([Subsets |-> s1.Subsets, diags |-> <<>>, names |-> {}],
                                       block.subsets, 1)
            IN [sample |-> [s1 EXCEPT !.Subsets = st.Subsets], diags |-> st.diags]

NilSampleFilter == [nil |-> TRUE, Subsets |-> <<>>, ExcludeSubsets |-> <<>>]
SampleFilter(incl, excl) == [nil |-> FALSE, Subsets |-> incl, ExcludeSubsets |-> excl]

\* index of the first subset of the slice with the name, 0 when there is none
\* (the inner loops of lines 155-161 and 166-172, which break at the first match)
FirstNamed(subsets, name) ==
    IF \E j \in DOMAIN subsets : subsets[j].Name = name
    THEN CHOOSE j \in DOMAIN subsets :
             /\ subsets[j].Name = name
             /\ \A k \in 1..(j - 1) : subsets[k].Name # name
    ELSE 0

\* lines 153-163: newSubs, in the order of the include list
RECURSIVE IncludeLoop(_, _, _, _)
IncludeLoop(newSubs, inclSubs, subsets, i) ==
    IF i > Len(inclSubs) THEN newSubs
    ELSE LET j == FirstNamed(subsets, inclSubs[i])
         IN IncludeLoop(IF j = 0 THEN newSubs ELSE Append(newSubs, subsets[j]),
                        inclSubs, subsets, i + 1)

\* line 169, subsets = append(subsets[:j], subsets[j+1:]...): the elements
\* after j move down one place in the array, whose length stays the same
ShiftDown(arr, len, j) ==
    [ k \in DOMAIN arr |-> IF k >= j /\ k < len THEN arr[k + 1] ELSE arr[k] ]

\* lines 165-173; st is [arr, len, own]: the array behind `subsets`, the
\* slice's length, and own = the array is the one behind s.Subsets
RECURSIVE ExcludeLoop(_, _, _)
ExcludeLoop(st, exclSubs, i) ==
    IF i > Len(exclSubs) THEN st
    ELSE LET j == FirstNamed(SubSeq(st.arr, 1, st.len), exclSubs[i])
         IN ExcludeLoop(IF j = 0 THEN st
                        ELSE [st EXCEPT !.arr = ShiftDown(st.arr, st.len, j),
                                        !.len = st.len - 1],
                        exclSubs, i + 1)

\* Sample.filterSubsets, lines 145-178: the slice returned and s.Subsets after
filterSubsets(Subsets, filter) ==
    IF Len(Subsets) < 1 THEN [subsets |-> <<>>, Subsets |-> Subsets]
    ELSE LET st0 == [arr |-> Subsets, len |-> Len(Subsets), own |-> TRUE]
             st1 == IF ~filter.nil /\ filter.Subsets # <<>>
                    THEN LET newSubs == IncludeLoop(<<>>, filter.Subsets[1], Subsets, 1)
                         IN [arr |-> newSubs, len |-> Len(newSubs), own |-> FALSE]
                    ELSE st0
             st2 == IF ~filter.nil /\ filter.ExcludeSubsets # <<>>
                    THEN ExcludeLoop(st1, filter.ExcludeSubsets[1], 1)
                    ELSE st1
         IN [subsets |-> SubSeq(st2.arr, 1, st2.len),
             Subsets |-> IF st2.own THEN st2.arr ELSE Subsets]

\* SampleSubset.Frame on one subset: a frame, no frame, or a failed response
SampleSubsetFrame(sub, outcome) ==
    IF sub.Name \in outcome.err THEN "err"
    ELSE IF sub.Name \in outcome.none THEN "nil"
    ELSE "frame"

\* the loop of lines 122-140; st is [failed, SubsetFrames]
RECURSIVE FrameLoop(_, _, _, _, _)
FrameLoop(st, subsets, i, outcome, name) ==
    IF i > Len(subsets) THEN st
    ELSE LET r == SampleSubsetFrame(subsets[i], outcome)
         IN IF r = "err" THEN [st EXCEPT !.failed = TRUE]
            ELSE IF r = "nil" THEN FrameLoop(st, subsets, i + 1, outcome, name)
            ELSE FrameLoop(
                     [st EXCEPT !.SubsetFrames =
                         [ k \in DOMAIN st.SubsetFrames \cup {subsets[i].Name} |->
                             [SampleName |-> name, Subset |-> k] ]],
                     subsets, i + 1, outcome, name)

\* Sample.Frame, lines 106-143: the frame (an option), the response's
\* diagnostics, the slice filterSubsets returned and s.Subsets after the call
Frame(s, filter, outcome) ==
    LET fs == filterSubsets(s.Subsets, filter)
    IN IF Len(fs.subsets) < 1
       THEN [selected |-> fs.subsets, Subsets |-> fs.Subsets, frame |-> <<>>,
             diags |-> << Diag("error", "no subsets matched the given filter", s.Name, <<>>) >>]
       ELSE LET st == FrameLoop([failed |-> FALSE, SubsetFrames |-> <<>>],
                                fs.subsets, 1, outcome, s.Name)
            IN IF st.failed
               THEN [selected |-> fs.subsets, Subsets |-> fs.Subsets, frame |-> <<>>,
                     diags |-> << Diag("error", "subset frame failed", s.Name, <<>>) >>]
               ELSE [selected |-> fs.subsets, Subsets |-> fs.Subsets,
                     frame |-> << [Sample |-> s.Name, Filter |-> filter,
                                   SubsetFrames |-> st.SubsetFrames] >>,
                     diags |-> <<>>]

\* ---- inputs: subset blocks a, b, c, "b:" and a subset b that fails to decode
SubA == SubsetBlock(<<97>>, TRUE)
SubB == SubsetBlock(<<98>>, TRUE)
SubC == SubsetBlock(<<99>>, TRUE)
SubInvalidLabel == SubsetBlock(<<98, 58>>, TRUE)
SubUndecodable == SubsetBlock(<<98>>, FALSE)

SampleBlocks ==
    { SampleBlock(<<115>>, TRUE, TRUE, ss) :
        ss \in { <<>>, <<SubA>>, <<SubA, SubB>>, <<SubB, SubA>>, <<SubA, SubB, SubC>>,
                 <<SubA, SubA>>, <<SubA, SubB, SubA>>, <<SubA, SubInvalidLabel>>,
                 <<SubInvalidLabel>>, <<SubA, SubUndecodable, SubC>> } }
    \cup { SampleBlock(<<115>>, FALSE, TRUE, <<SubA>>),
           SampleBlock(<<115>>, TRUE, FALSE, <<SubA>>) }

IncludeLists ==
    { <<>>, << <<>> >>, << << <<97>> >> >>, << << <<98>> >> >>, << << <<98>>, <<97>> >> >>,
      << << <<97>>, <<97>> >> >>, << << <<100>> >> >> }
ExcludeLists ==
    { <<>>, << << <<97>> >> >>, << << <<98>> >> >>, << << <<99>> >> >>,
      << << <<97>>, <<99>> >> >> }
SampleFilters ==
    {NilSampleFilter} \cup { SampleFilter(i, e) : i \in IncludeLists, e \in ExcludeLists }

\* what the subsets' Frame calls give: the names with no frame, the names that fail
SubsetFrameOutcomes ==
    { [none |-> {}, err |-> {}], [none |-> {<<97>>}, err |-> {}],
      [none |-> {<<97>>, <<98>>, <<99>>}, err |-> {}], [none |-> {}, err |-> {<<98>>}] }

\* the scenario decoder is not in use
DecoderIdle ==
    /\ EvalContext = <<>>
    /\ DecodeTarget = DecodeTargetAll
    /\ ScenarioFilter = NilFilter
    /\ blocks = <<>>
    /\ scenarioBlocks = <<>>
    /\ pc = "idle"
    /\ idx = 0
    /\ paths = <<>>

scenarioVars == <<decoderVars, blockVars, concVars, pathVars>>

InitSample ==
    /\ DecoderIdle
    /\ ConcIdle
    /\ PathIdle
    /\ sampleBlock \in SampleBlocks
    /\ sample = NewSample
    /\ spc = "new"
    /\ sampleDiags = <<>>
    /\ declared = <<>>
    /\ frameFilter = NilSampleFilter
    /\ frameOut = [called |-> FALSE, selected |-> <<>>, frame |-> <<>>, diags |-> <<>>]
    /\ frameCalls = 0
    /\ SnippetIdle
    /\ modules = FlightPlanHeap
    /\ CombinedIdle
    /\ DiagIdle

\* s.Decode(block, ctx) on the new sample
DecodeSample ==
    /\ spc = "new"
    /\ LET r == SampleDecode(sample, sampleBlock)
       IN /\ sample' = r.sample
          /\ sampleDiags' = r.diags
          /\ declared' = r.sample.Subsets
          /\ spc' = IF HasErrors(r.diags) THEN "failed" ELSE "decoded"
    /\ UNCHANGED <<sampleBlock, frameFilter, frameOut, frameCalls, scenarioVars, snippetVars, modules, combined, diagVars>>

\* s.Frame(ctx, ws, filter) on a sample that decoded without error
FrameSample ==
    /\ spc = "decoded"
    /\ frameCalls < MaxFrameCalls
    /\ \E filter \in SampleFilters, outcome \in SubsetFrameOutcomes :
         LET r == Frame(sample, filter, outcome)
         IN /\ sample' = [sample EXCEPT !.Subsets = r.Subsets]
            /\ frameFilter' = filter
            /\ frameOut' = [called |-> TRUE, selected |-> r.selected,
                            frame |-> r.frame, diags |-> r.diags]
    /\ frameCalls' = frameCalls + 1
    /\ UNCHANGED <<sampleBlock, spc, sampleDiags, declared, scenarioVars, snippetVars, modules, combined, diagVars>>

NextSample == DecodeSample \/ FrameSample

SpecSample == InitSample /\ [][NextSample]_vars

(***************************************************************************)
(* FromHCL's source snippet (diagnostics.go).  A file is its bytes, an     *)
(* option; an hcl.Range is [Start, End, EndIsZero]: the byte offsets of    *)
(* its two positions, and whether End is the zero hcl.Pos.                 *)
(***************************************************************************)
MaxFileLen == 3
NewLine == 10

Range(start, end, endIsZero) == [Start |-> start, End |-> end, EndIsZero |-> endIsZero]

\* hcl.Range.Empty
Empty(r) == r.Start = r.End

\* hcl.Range.ContainsOffset
ContainsOffset(r, offset) == offset >= r.Start /\ offset < r.End

\* hcl.Range.Overlaps, both ranges being of the same file
Overlaps(r, other) ==
    IF Empty(r) \/ Empty(other) THEN FALSE
    ELSE \/ ContainsOffset(r, other.Start) \/ ContainsOffset(r, other.End)
         \/ ContainsOffset(other, r.Start) \/ ContainsOffset(other, r.End)

\* hcl.RangeOver
RangeOver(a, b) ==
    IF Empty(a) THEN b
    ELSE IF Empty(b) THEN a
    ELSE [Start |-> IF a.Start < b.Start THEN a.Start ELSE b.Start,
          End |-> IF a.End > b.End THEN a.End ELSE b.End,
          EndIsZero |-> FALSE]

\* the ranges hcl.NewRangeScanner gives with bufio.ScanLines from byte `pos`
\* on: one per line, without the line's newline
RECURSIVE ScanLines(_, _)
ScanLines(bytes, pos) ==
    IF pos >= Len(bytes) THEN <<>>
    ELSE LET nls == { k \in pos..(Len(bytes) - 1) : bytes[k + 1] = NewLine }
         IN IF nls = {} THEN << Range(pos, Len(bytes), FALSE) >>
            ELSE LET k == CHOOSE n \in nls : \A m \in nls : n <= m
                 IN << Range(pos, k, FALSE) >> \o ScanLines(bytes, k + 1)

\* lines 209-221 from line i on; st is [codeStartByte, code]
RECURSIVE CodeLoop(_, _, _, _, _)
CodeLoop(st, lines, i, bytes, snippetRange) ==
    IF i > Len(lines) THEN st
    ELSE IF Overlaps(lines[i], snippetRange)
    THEN CodeLoop([codeStartByte |-> IF st.codeStartByte = 0 /\ Len(st.code) = 0
                                     THEN lines[i].Start ELSE st.codeStartByte,
                   code |-> st.code \o SubSeq(bytes, lines[i].Start + 1, lines[i].End)
                                    \o <<NewLine>>],
                  lines, i + 1, bytes, snippetRange)
    ELSE CodeLoop(st, lines, i + 1, bytes, snippetRange)

\* strings.TrimSuffix(code, "\n")
TrimSuffixNewLine(code) ==
    IF Len(code) >= 1 /\ code[Len(code)] = NewLine THEN SubSeq(code, 1, Len(code) - 1)
    ELSE code

\* lines 235-239 and 240-244: an offset capped to 0..len(codeStr)
Cap(n, len) == IF n < 0 THEN 0 ELSE IF n > len THEN len ELSE n

\* lines 166-188: the highlight and snippet ranges of a diagnostic
HighlightRange(subject) ==
    LET h == IF subject.EndIsZero THEN Range(subject.Start, subject.Start, FALSE) ELSE subject
    IN IF Empty(h) THEN [h EXCEPT !.End = h.End + 1] ELSE h

SnippetRange(subject, context) ==
    LET h == IF subject.EndIsZero THEN Range(subject.Start, subject.Start, FALSE) ELSE subject
        r == RangeOver(IF context # <<>> THEN context[1] ELSE h, h)
    IN IF Empty(r) THEN [r EXCEPT !.End = r.End + 1] ELSE r

\* lines 165-247 of FromHCL for one diagnostic with a Subject: its Snippet
FromHCLSnippet(in) ==
    IF in.file = <<>>
    THEN [called |-> TRUE, hasSnippet |-> FALSE, Code |-> <<>>,
          HighlightStartOffset |-> 0, HighlightEndOffset |-> 0]
    ELSE LET bytes == in.file[1]
             highlightRange == HighlightRange(in.Subject)
             snippetRange == SnippetRange(in.Subject, in.Context)
             st == CodeLoop([codeStartByte |-> 0, code |-> <<>>], ScanLines(bytes, 0), 1,
                            bytes, snippetRange)
             codeStr == TrimSuffixNewLine(st.code)
             start == highlightRange.Start - st.codeStartByte
             end == start + (highlightRange.End - highlightRange.Start)
         IN [called |-> TRUE, hasSnippet |-> TRUE, Code |-> codeStr,
             HighlightStartOffset |-> Cap(start, Len(codeStr)),
             HighlightEndOffset |-> Cap(end, Len(codeStr))]

\* ---- inputs: files of the bytes x and newline, ranges over and past the file
FileBytes == UNION { [1..n -> {120, NewLine}] : n \in 0..MaxFileLen }

Ranges ==
    { Range(a, b, FALSE) : a, b \in 0..(MaxFileLen + 1) }
    \cup { Range(a, 0, TRUE) : a \in 0..(MaxFileLen + 1) }

SnippetInputs ==
    { [file |-> <<bytes>>, Subject |-> subj, Context |-> ctx] :
        bytes \in FileBytes, subj \in Ranges,
        ctx \in {<<>>} \cup { <<Range(a, b, FALSE)>> : a, b \in {0, 2, MaxFileLen} } }
    \cup { [file |-> <<>>, Subject |-> Range(0, 1, FALSE), Context |-> <<>>] }

InitSnippet ==
    /\ DecoderIdle
    /\ ConcIdle
    /\ PathIdle
    /\ SampleIdle
    /\ snipIn \in SnippetInputs
    /\ snipOut = [called |-> FALSE, hasSnippet |-> FALSE, Code |-> <<>>,
                  HighlightStartOffset |-> 0, HighlightEndOffset |-> 0]
    /\ modules = FlightPlanHeap
    /\ CombinedIdle
    /\ DiagIdle

\* FromHCL(files, diags) on the diagnostic
RunFromHCL ==
    /\ ~snipOut.called
    /\ snipOut' = FromHCLSnippet(snipIn)
    /\ UNCHANGED <<snipIn, sampleVars, scenarioVars, modules, combined, diagVars>>

NextSnippet == RunFromHCL

SpecSnippet == InitSnippet /\ [][NextSnippet]_vars

(***************************************************************************)
(* DecodeScenarioBlocks on one scenario block with steps.                  *)
(***************************************************************************)
\* step labels "first", "second" and "first:"
First == <<102, 105, 114, 115, 116>>
Second == <<115, 101, 99, 111, 110, 100>>
HasColon == <<102, 105, 114, 115, 116, 58>>

Vars(name, value) == [ k \in {name} |-> value ]

ValidStep(label, module) == StepBlock(label, module, FALSE, FALSE, NoAttrs)

\* the step lists of the step test (lines 26-279), and steps with variables
ValidStepLists ==
    { <<>>,
      << ValidStep(First, "backend") >>,
      << ValidStep(First, "backend"), ValidStep(Second, "frontend_red") >>,
      << ValidStep(Second, "frontend_red"), ValidStep(First, "backend") >>,
      << StepBlock(First, "backend", FALSE, FALSE, Vars("driver", "mysql")) >>,
      << ValidStep(First, "backend"),
         StepBlock(Second, "backend", FALSE, FALSE, Vars("driver", "mysql")) >>,
      << StepBlock(First, "backend", FALSE, FALSE, Vars("driver", "mysql")),
         ValidStep(Second, "backend") >>,
      << StepBlock(First, "frontend_red", FALSE, FALSE, Vars("app_version", "1.0.0")) >> }

InvalidSteps ==
    { ValidStep(First, "not_real"),
      ValidStep(HasColon, "backend"),
      StepBlock(First, "backend", TRUE, FALSE, NoAttrs),
      StepBlock(First, "backend", FALSE, TRUE, NoAttrs),
      StepBlock(First, "backend", FALSE, FALSE, Vars("count", "1")),
      StepBlock(First, "backend", FALSE, FALSE, Vars("for_each", "1")),
      StepBlock(First, "backend", FALSE, FALSE, Vars("depends_on", "1")) }

InvalidStepLists ==
    { <<st>> : st \in InvalidSteps }
    \cup { << ValidStep(Second, "backend"), st >> : st \in InvalidSteps }
    \cup { << ValidStep(First, "backend"), ValidStep(First, "backend") >>,
           << ValidStep(First, "backend"), ValidStep(Second, "backend"),
              ValidStep(First, "frontend_red") >> }

StepScenarioBlocks ==
    { HclBlockWithSteps(<<97>>, mb, steps) :
        mb \in {NoMatrixBlock, MatrixYX}, steps \in ValidStepLists \cup InvalidStepLists }

InitSteps ==
    /\ EvalContext = <<>>
    /\ DecodeTarget \in NewScenarioDecoderTargets
    /\ ScenarioFilter = NilFilter
    /\ blocks \in { <<b>> : b \in StepScenarioBlocks }
    /\ scenarioBlocks = <<>>
    /\ pc = "entry"
    /\ idx = 0
    /\ paths = <<>>
    /\ ConcIdle
    /\ PathIdle
    /\ OtherIdle

SpecSteps == InitSteps /\ [][Next]_vars

(***************************************************************************)
(* appendSourceSnippets (diagnostics.go): the offsets with which the code  *)
(* text is sliced.  Go's int is modelled with IntBits bits, two's          *)
(* complement, so that start + 1 wraps around as it does in 64 bits.       *)
(***************************************************************************)
IntBits == 5
MaxCodeLen == 2

MaxInt == 2 ^ (IntBits - 1) - 1
MinInt == 0 - 2 ^ (IntBits - 1)
Ints == MinInt..MaxInt

\* the int that an arithmetic result n is stored as
WrapInt(n) == ((n - MinInt) % (2 ^ IntBits)) + MinInt

\* lines 453-478: start and end as they reach the slicing of line 480
RenderOffsets(code, hlStart, hlEnd) ==
    LET start0 == hlStart
        end0 == IF hlEnd < start0
                THEN LET e == WrapInt(start0 + 1)
                     IN IF e > Len(code) THEN Len(code) ELSE e
                ELSE hlEnd
    IN [start |-> IF start0 < 0 THEN 0 ELSE IF start0 > Len(code) THEN Len(code) ELSE start0,
        end |-> IF end0 < 0 THEN 0 ELSE IF end0 > Len(code) THEN Len(code) ELSE end0]

\* appendSourceSnippets, lines 431-513, up to the slicing of the code
appendSourceSnippets(diag) ==
    IF ~diag.hasRange \/ ~diag.hasSnippet
    THEN [called |-> TRUE, sliced |-> FALSE, start |-> 0, end |-> 0]
    ELSE LET r == RenderOffsets(diag.Code, diag.HighlightStartOffset, diag.HighlightEndOffset)
         IN [called |-> TRUE, sliced |-> TRUE, start |-> r.start, end |-> r.end]

\* ---- inputs: every pair of ints as offsets, code texts of x
RenderInputs ==
    { [hasRange |-> TRUE, hasSnippet |-> TRUE, Code |-> [ i \in 1..n |-> 120 ],
       HighlightStartOffset |-> a, HighlightEndOffset |-> b] :
        n \in 0..MaxCodeLen, a \in Ints, b \in Ints }
    \cup { [hasRange |-> r, hasSnippet |-> sn, Code |-> <<120>>,
            HighlightStartOffset |-> 0, HighlightEndOffset |-> 1] :
             r \in BOOLEAN, sn \in BOOLEAN }

InitRender ==
    /\ DecoderIdle
    /\ ConcIdle
    /\ PathIdle
    /\ SampleIdle
    /\ SnippetIdle
    /\ modules = FlightPlanHeap
    /\ CombinedIdle
    /\ TFIdle
    /\ renderIn \in RenderInputs
    /\ renderOut = [called |-> FALSE, sliced |-> FALSE, start |-> 0, end |-> 0]

\* appendSourceSnippets(buf, diag, color) on the diagnostic
RunAppendSourceSnippets ==
    /\ ~renderOut.called
    /\ renderOut' = appendSourceSnippets(renderIn)
    /\ UNCHANGED <<renderIn, tfIn, tfOut, sampleVars, snippetVars, scenarioVars, modules,
                   combined>>

NextRender == RunAppendSourceSnippets

SpecRender == InitRender /\ [][NextRender]_vars

(***************************************************************************)
(* FromTFJSON (diagnostics.go).  A tfjson.Diagnostic is [Severity,         *)
(* Summary, Detail, Range, Snippet]; Range, Snippet and the snippet's      *)
(* Context are pointers, modelled as options.                              *)
(***************************************************************************)
MaxTFDiags == 2

\* lines 107-114
TFSeverity(sev) ==
    IF sev = "error" THEN "SEVERITY_ERROR"
    ELSE IF sev = "warning" THEN "SEVERITY_WARNING"
    ELSE "SEVERITY_UNKNOWN"

\* lines 85-97 and 116-132: the pb.Range and the pb.Diagnostic_Snippet of a
\* diagnostic whose Range, Snippet and Context are not nil
TFRange(rng) == [Filename |-> rng.Filename, Start |-> rng.Start, End |-> rng.End]

TFSnippet(sn) ==
    [Context |-> sn.Context[1], Code |-> sn.Code, StartLine |-> sn.StartLine,
     HighlightStartOffset |-> sn.HighlightStartOffset,
     HighlightEndOffset |-> sn.HighlightEndOffset,
     Values |-> [ i \in DOMAIN sn.Values |->
                    [Traversal |-> sn.Values[i].Traversal,
                     Statement |-> sn.Values[i].Statement] ]]

\* the fields read at lines 86-103 are read through a nil pointer
TFDereferencesNil(din) ==
    din.Range = <<>> \/ din.Snippet = <<>> \/ din.Snippet[1].Context = <<>>

\* the loop of lines 81-136 from diagnostic i on; st is [out, panicked]
RECURSIVE FromTFJSONLoop(_, _, _)
FromTFJSONLoop(st, in, i) ==
    IF i > Len(in) THEN st
    ELSE IF TFDereferencesNil(in[i]) THEN [st EXCEPT !.panicked = TRUE]
    ELSE FromTFJSONLoop(
             [st EXCEPT !.out = Append(@,
                 [Severity |-> TFSeverity(in[i].Severity), Summary |-> in[i].Summary,
                  Detail |-> in[i].Detail, Range |-> TFRange(in[i].Range[1]),
                  Snippet |-> TFSnippet(in[i].Snippet[1])])],
             in, i + 1)

\* FromTFJSON, lines 75-139: the diagnostics returned, or the panic
FromTFJSON(in) ==
    IF Len(in) < 1 THEN [called |-> TRUE, panicked |-> FALSE, out |-> <<>>]
    ELSE LET st == FromTFJSONLoop([out |-> <<>>, panicked |-> FALSE], in, 1)
         IN [called |-> TRUE, panicked |-> st.panicked,
             out |-> IF st.panicked THEN <<>> ELSE st.out]

\* ---- inputs: with and without a range, a snippet, a snippet context
TFRangeIn == [Filename |-> "main.tf", Start |-> [Line |-> 1, Column |-> 1, Byte |-> 0],
              End |-> [Line |-> 1, Column |-> 3, Byte |-> 2]]

TFSnippetIn(context, values) ==
    [Context |-> context, Code |-> "foo", StartLine |-> 1, HighlightStartOffset |-> 0,
     HighlightEndOffset |-> 2, Values |-> values]

TFSnippetsIn ==
    { <<>>, << TFSnippetIn(<<>>, <<>>) >>, << TFSnippetIn(<<"resource">>, <<>>) >>,
      << TFSnippetIn(<<"resource">>,
                     << [Traversal |-> "var.a", Statement |-> "is 1"] >>) >> }

TFDiagnostics ==
    { [Severity |-> sev, Summary |-> sum, Detail |-> "detail", Range |-> rng,
       Snippet |-> sn] :
        sev \in {"error", "warning", "other"}, sum \in {"s1", "s2"},
        rng \in {<<>>, <<TFRangeIn>>}, sn \in TFSnippetsIn }

InitTF ==
    /\ DecoderIdle
    /\ ConcIdle
    /\ PathIdle
    /\ SampleIdle
    /\ SnippetIdle
    /\ modules = FlightPlanHeap
    /\ CombinedIdle
    /\ RenderIdle
    /\ tfIn \in SeqsUpTo(TFDiagnostics, MaxTFDiags)
    /\ tfOut = [called |-> FALSE, panicked |-> FALSE, out |-> <<>>]

\* FromTFJSON(in)
RunFromTFJSON ==
    /\ ~tfOut.called
    /\ tfOut' = FromTFJSON(tfIn)
    /\ UNCHANGED <<tfIn, renderIn, renderOut, sampleVars, snippetVars, scenarioVars,
                   modules, combined>>

NextTF == RunFromTFJSON

SpecTF == InitTF /\ [][NextTF]_vars

(***************************************************************************)
(* Properties.                                                             *)
(***************************************************************************)
ConcReturned == pc = "conc_returned"
Returned == pc = "done"

\* C1: when the caller's context is cancelled at any moment, no worker stays
\* blocked forever on a send to diagC or scenarioC (collect has returned, so
\* nothing will ever receive), and the caller is not left waiting on doneC.
C1_NoGoroutineBlockedForever ==
    /\ ~(cpc = "returned" /\ \E w \in Workers : wpc[w] \in {"sendDiag", "sendScenario"})
    /\ ~(pc = "recvDone" /\ cpc = "returned" /\ ~doneClosed)

\* C2: when decodeScenariosConcurrent returns, every diagnostic a worker's
\* decodeScenario produced is in the block's Diagnostics, and an error among
\* them makes the block's Diagnostics have an error.
C2_WorkerDiagnosticsInBlock ==
    ConcReturned =>
        /\ \A ds \in produced : SeqToSet(ds) \subseteq SeqToSet(scenarioBlocks[idx].Diagnostics)
        /\ (\E ds \in produced : HasErrors(ds)) => HasErrors(scenarioBlocks[idx].Diagnostics)

\* C3: the decode path is serial without a matrix or with fewer than 1 vectors,
\* concurrent at ScenariosNamesExpandVariants from 8,000 vectors, concurrent at
\* ScenariosComplete and All from 100 vectors, and serial otherwise.
C3_DecodePathAsSpecified ==
    pathOut # "none" =>
        pathOut =
            IF pathIn.matrixIsNil \/ pathIn.n < 1 THEN "serial"
            ELSE IF pathIn.target = DecodeTargetScenariosNamesExpandVariants /\ pathIn.n >= 8000
            THEN "concurrent"
            ELSE IF /\ pathIn.target \in {DecodeTargetScenariosComplete, DecodeTargetAll}
                    /\ pathIn.n >= 100
            THEN "concurrent"
            ELSE "serial"

\* C4: under every interleaving of the workers, the scenario whose Variants is
\* v was decoded against a context in which `matrix` resolves to v.
C4_MatrixBoundToOwnVector ==
    \A w \in Workers :
        wpc[w] \in {"sendDiag", "sendScenario", "done"} =>
            wres[w].scenario.matrix = wres[w].scenario.Variants

\* C5: in the value DecodeScenarioBlocks returns, the blocks are in
\* non-decreasing order of Name and the Scenarios of every block are in
\* non-decreasing order of Scenario.String().
C5_OutputOrdered ==
    Returned =>
        /\ IsSortedBy([ i \in DOMAIN scenarioBlocks |-> scenarioBlocks[i].Name ])
        /\ \A i \in DOMAIN scenarioBlocks :
             IsSortedBy([ k \in DOMAIN scenarioBlocks[i].Scenarios |->
                            String(scenarioBlocks[i].Scenarios[k]) ])

\* a returned value of two blocks given in the order b, a, one of them
\* expanded into two scenarios whose vectors were declared in the order y, x
C5_Witness ==
    /\ Returned
    /\ Len(blocks) = 2
    /\ StrLess(blocks[2].Label, blocks[1].Label)
    /\ Len(scenarioBlocks) = 2
    /\ \E i \in DOMAIN scenarioBlocks :
         /\ Len(scenarioBlocks[i].Scenarios) = 2
         /\ scenarioBlocks[i].Matrix.Vectors = << <<Ey>>, <<Ex>> >>

C7_ScenarioCount ==
    (Returned /\ ~StopsBeforeExpand(DecodeTarget) /\ ScenarioFilter.nil) =>
        \A i \in DOMAIN scenarioBlocks :
            ~HasErrors(scenarioBlocks[i].Diagnostics) =>
                Len(scenarioBlocks[i].Scenarios) =
                    IF scenarioBlocks[i].Matrix.nil THEN 1
                    ELSE Len(UniqueValues(scenarioBlocks[i].Matrix).Vectors)

\* C8: the decode stops at the target: at ScenariosNamesNoVariants a returned
\* block has no Matrix and no Scenarios; at ScenariosMatrixOnly it has the
\* matrix of its matrix block (filtered or not) and no Scenarios; Scenarios
\* exist only at ScenariosNamesExpandVariants and above.
C8_StopsAtTarget ==
    Returned =>
        \A i \in DOMAIN scenarioBlocks :
            LET sb == scenarioBlocks[i]
                dm == decodeMatrix(<<>>, blocks[sb.Block]).Matrix
            IN /\ DecodeTarget = DecodeTargetScenariosNamesNoVariants =>
                    (sb.Matrix.nil /\ sb.Scenarios = <<>>)
               /\ DecodeTarget = DecodeTargetScenariosMatrixOnly =>
                    /\ sb.Scenarios = <<>>
                    /\ sb.Matrix \in {dm, Filter(dm, ScenarioFilter)}
                    /\ sb.Matrix.nil <=> dm.nil
               /\ sb.Scenarios # <<>> =>
                    DecodeTarget >= DecodeTargetScenariosNamesExpandVariants

\* a decode to ScenariosMatrixOnly that returned a block with a matrix of two vectors
C8_Witness ==
    /\ Returned
    /\ DecodeTarget = DecodeTargetScenariosMatrixOnly
    /\ \E i \in DOMAIN scenarioBlocks :
         /\ ~scenarioBlocks[i].Matrix.nil
         /\ Len(scenarioBlocks[i].Matrix.Vectors) = 2

\* C9: a block whose label validation or matrix decoding produced an error
\* diagnostic is not expanded: it has no scenario.
C9_ErrorsGateExpansion ==
    Returned =>
        \A i \in DOMAIN scenarioBlocks :
            LET block == blocks[scenarioBlocks[i].Block]
            IN (\/ HasErrors(verifyBlockLabelsAreValidIdentifiers(block))
                \/ (/\ DecodeTarget >= DecodeTargetScenariosMatrixOnly
                    /\ HasErrors(decodeMatrix(<<>>, block).diags)))
               => scenarioBlocks[i].Scenarios = <<>>

\* C10: with a filter set and a target of ScenariosMatrixOnly or higher, every
\* vector left in a block's Matrix and the Variants of every scenario contain
\* all include elements and no exclude element, whatever the size of the
\* matrix, and only blocks of the filter's name are returned.
C10_FilterApplied ==
    (Returned /\ ~ScenarioFilter.nil /\ DecodeTarget >= DecodeTargetScenariosMatrixOnly) =>
        \A i \in DOMAIN scenarioBlocks :
            LET sb == scenarioBlocks[i]
            IN /\ \A k \in DOMAIN sb.Matrix.Vectors :
                    VectorMatches(sb.Matrix.Vectors[k], ScenarioFilter)
               /\ \A k \in DOMAIN sb.Scenarios :
                    sb.Scenarios[k].Variants # <<>> =>
                        VectorMatches(sb.Scenarios[k].Variants[1], ScenarioFilter)
               /\ ScenarioFilter.Name # <<>> => sb.Name = ScenarioFilter.Name

\* C11: when the caller's context was cancelled during a concurrent decode
\* and the function returns, the block's Scenarios hold every scenario a
\* worker delivered and the block's Diagnostics hold an error diagnostic
\* (the one attributed to the cancellation).
C11_CancelledDecodeReports ==
    (ConcReturned /\ ctxCancelled /\ Workers # {}) =>
        /\ \A w \in Workers :
             (wpc[w] = "done" /\ wres[w].keep) =>
                 wres[w].scenario \in SeqToSet(scenarioBlocks[idx].Scenarios)
        /\ HasErrors(scenarioBlocks[idx].Diagnostics)

\* C18: on the serial path, a vector whose decode has an error diagnostic has
\* no scenario in the block and its diagnostic is in the block's Diagnostics,
\* and every other vector of the block has its scenario.
C18_SerialErrorIsLocal ==
    (Returned /\ ~StopsBeforeExpand(DecodeTarget)) =>
        \A i \in DOMAIN scenarioBlocks :
            LET sb == scenarioBlocks[i]
                block == blocks[sb.Block]
            IN \A k \in DOMAIN sb.Matrix.Vectors :
                 LET v == << sb.Matrix.Vectors[k] >>
                 IN IF v \in block.bad
                    THEN /\ \A n \in DOMAIN sb.Scenarios : sb.Scenarios[n].Variants # v
                         /\ \E n \in DOMAIN sb.Diagnostics :
                              /\ sb.Diagnostics[n].Severity = "error"
                              /\ sb.Diagnostics[n].Matrix = v
                    ELSE \E n \in DOMAIN sb.Scenarios : sb.Scenarios[n].Variants = v

\* a block of two vectors, the body failing for f:x only: one scenario, for f:y
C18_Witness ==
    /\ Returned
    /\ \E i \in DOMAIN scenarioBlocks :
         /\ scenarioBlocks[i].Matrix.Vectors = << <<Ey>>, <<Ex>> >>
         /\ blocks[scenarioBlocks[i].Block].bad = { << <<Ex>> >> }
         /\ Len(scenarioBlocks[i].Scenarios) = 1
         /\ scenarioBlocks[i].Scenarios[1].Variants = << <<Ey>> >>
         /\ HasErrors(scenarioBlocks[i].Diagnostics)

\* C19: DecodeScenarioBlocks never mutates the decoder: its EvalContext is
\* always the root context it was constructed with.
C19_DecoderContextUnchanged == pc \in {"entry", "loop", "done"} => EvalContext = <<>>

\* the names of a slice of subsets
SubsetNames(subsets) == { subsets[i].Name : i \in DOMAIN subsets }

\* the declared subsets whose name is in the include list (all without one),
\* in declared order, less those named in the exclude list
ClaimedSelection(subsets, filter) ==
    LET Included(x) == filter.nil \/ filter.Subsets = <<>>
                       \/ x.Name \in SeqToSet(filter.Subsets[1])
        NotExcluded(x) == filter.nil \/ filter.ExcludeSubsets = <<>>
                          \/ x.Name \notin SeqToSet(filter.ExcludeSubsets[1])
    IN SelectSeq(SelectSeq(subsets, Included), NotExcluded)

\* C12: filterSubsets returns the declared subsets that are in the include
\* list (all of them without an include list), in declared order and each at
\* most once, less every subset named in the exclude list.
C12_FilterSubsetsSelects ==
    (frameOut.called /\ frameCalls = 1) =>
        frameOut.selected = ClaimedSelection(declared, frameFilter)

\* C13: a frame that Frame returns has a non-empty SubsetFrames map keyed by
\* names of subsets that passed the filter; when no subset passes, Frame
\* returns no frame and exactly one error diagnostic.
C13_FrameHasSubsetFrames ==
    frameOut.called =>
        /\ frameOut.frame # <<>> =>
             /\ DOMAIN frameOut.frame[1].SubsetFrames # {}
             /\ DOMAIN frameOut.frame[1].SubsetFrames \subseteq SubsetNames(frameOut.selected)
        /\ frameOut.selected = <<>> =>
             /\ frameOut.frame = <<>>
             /\ Len(frameOut.diags) = 1
             /\ frameOut.diags[1].Severity = "error"

\* C17: when Sample.Decode returns no error diagnostic the sample has at
\* least one subset and its subset names are distinct; a block with no subset
\* block or with two subsets of one name gives an error diagnostic; and the
\* sample's Subsets never hold a name twice.
C17_DecodedSampleHasDistinctSubsets ==
    spc \in {"decoded", "failed"} =>
        /\ ~HasErrors(sampleDiags) =>
             /\ Len(declared) >= 1
             /\ \A i, j \in DOMAIN declared : declared[i].Name = declared[j].Name => i = j
        /\ Len(sampleBlock.subsets) < 1 => HasErrors(sampleDiags)
        /\ (\E i, j \in DOMAIN sampleBlock.subsets :
                i # j /\ sampleBlock.subsets[i].Label = sampleBlock.subsets[j].Label)
             => HasErrors(sampleDiags)
        /\ \A i, j \in DOMAIN declared : declared[i].Name = declared[j].Name => i = j

\* subsets a, b, a: Decode stops at the second a with an error, having added a and b
C17_Witness ==
    /\ spc = "failed"
    /\ sampleBlock.subsets = <<SubA, SubB, SubA>>
    /\ declared = << [Name |-> <<97>>], [Name |-> <<98>>] >>
    /\ HasErrors(sampleDiags)

\* C20: Frame and filterSubsets leave s.Subsets as Decode left it, and a call
\* selects what the same filter selects on the freshly decoded sample.
C20_FrameLeavesSubsets ==
    frameOut.called =>
        /\ sample.Subsets = declared
        /\ frameOut.selected = filterSubsets(declared, frameFilter).subsets

\* C14: for every diagnostic FromHCL gives a snippet, whatever the subject
\* range (end unset, at a newline, end byte before start byte),
\* 0 <= HighlightStartOffset <= HighlightEndOffset <= len(Code).
C14_HighlightOffsetsOrdered ==
    (snipOut.called /\ snipOut.hasSnippet) =>
        /\ 0 <= snipOut.HighlightStartOffset
        /\ snipOut.HighlightStartOffset <= snipOut.HighlightEndOffset
        /\ snipOut.HighlightEndOffset <= Len(snipOut.Code)

\* the offsets are within the code and ordered when the subject's end byte is
\* not before its start byte
C14_OrderedForForwardRanges ==
    (snipOut.called /\ snipOut.hasSnippet) =>
        /\ 0 <= snipOut.HighlightStartOffset
        /\ snipOut.HighlightStartOffset <= Len(snipOut.Code)
        /\ 0 <= snipOut.HighlightEndOffset
        /\ snipOut.HighlightEndOffset <= Len(snipOut.Code)
        /\ (snipIn.Subject.EndIsZero \/ snipIn.Subject.Start <= snipIn.Subject.End)
             => snipOut.HighlightStartOffset <= snipOut.HighlightEndOffset

\* a step of the block is invalid
HasInvalidStep(block) == HasErrors(AllStepDiags(block, 1))

\* C15 as claimed: whenever the scenarios of a block are decoded, a block with
\* an invalid step gives an error diagnostic and no scenario.
C15_InvalidStepFailsAtEveryTarget ==
    (Returned /\ ~StopsBeforeExpand(DecodeTarget)) =>
        \A i \in DOMAIN scenarioBlocks :
            HasInvalidStep(blocks[scenarioBlocks[i].Block]) =>
                /\ HasErrors(scenarioBlocks[i].Diagnostics)
                /\ scenarioBlocks[i].Scenarios = <<>>

\* C15: when the steps are decoded (ScenariosComplete and All), a scenario
\* block with an invalid step (unknown module, invalid label, unknown attribute
\* or block, reserved variable name, repeated step name) gives at least one
\* error diagnostic and no scenario.
C15_InvalidStepFailsScenario ==
    (Returned /\ DecodesSteps(DecodeTarget)) =>
        \A i \in DOMAIN scenarioBlocks :
            HasInvalidStep(blocks[scenarioBlocks[i].Block]) =>
                /\ HasErrors(scenarioBlocks[i].Diagnostics)
                /\ scenarioBlocks[i].Scenarios = <<>>

\* a block of two vectors whose second step repeats the first step's name
C15_Witness ==
    /\ Returned
    /\ DecodesSteps(DecodeTarget)
    /\ blocks[1].steps = << ValidStep(First, "backend"), ValidStep(First, "backend") >>
    /\ blocks[1].matrix = MatrixYX
    /\ Len(scenarioBlocks) = 1
    /\ Len(scenarioBlocks[1].Matrix.Vectors) = 2
    /\ scenarioBlocks[1].Scenarios = <<>>
    /\ HasErrors(scenarioBlocks[1].Diagnostics)

StepsInDeclaredOrder ==
    \A i \in DOMAIN scenarioBlocks :
        \A n \in DOMAIN scenarioBlocks[i].Scenarios :
            LET steps == scenarioBlocks[i].Scenarios[n].Steps
                decl == blocks[scenarioBlocks[i].Block].steps
            IN /\ Len(steps) = Len(decl)
               /\ \A k \in DOMAIN steps : steps[k].Name = decl[k].Label

\* the Modules of the steps are the steps' own: none is a flight plan module,
\* no two steps hold the same one, and the flight plan's are as they were
StepsOwnTheirModules ==
    /\ \A a \in DOMAIN FlightPlanHeap : modules[a] = FlightPlanHeap[a]
    /\ \A i \in DOMAIN scenarioBlocks :
         \A n \in DOMAIN scenarioBlocks[i].Scenarios :
           \A k \in DOMAIN scenarioBlocks[i].Scenarios[n].Steps :
             LET a == scenarioBlocks[i].Scenarios[n].Steps[k].Module
             IN /\ a \notin DOMAIN FlightPlanHeap
                /\ \A j \in DOMAIN scenarioBlocks :
                     \A m \in DOMAIN scenarioBlocks[j].Scenarios :
                       \A l \in DOMAIN scenarioBlocks[j].Scenarios[m].Steps :
                         scenarioBlocks[j].Scenarios[m].Steps[l].Module = a
                             => (i = j /\ n = m /\ k = l)

\* C16 as claimed: after a decode of the steps, every step, in declared order,
\* holds a module equal in name, source, version and attrs to the flight plan
\* module it references, and the module is the step's own copy.
C16_StepModuleEqualsReferenced ==
    (Returned /\ DecodesSteps(DecodeTarget)) =>
        /\ StepsInDeclaredOrder
        /\ StepsOwnTheirModules
        /\ \A i \in DOMAIN scenarioBlocks :
             \A n \in DOMAIN scenarioBlocks[i].Scenarios :
               \A k \in DOMAIN scenarioBlocks[i].Scenarios[n].Steps :
                 modules[scenarioBlocks[i].Scenarios[n].Steps[k].Module] =
                     FlightPlanModules[blocks[scenarioBlocks[i].Block].steps[k].module]

\* C16: after a decode of the steps, every step, in declared order, holds a
\* module equal in name, source and version to the flight plan module it
\* references, and equal in attrs except for the attrs the step's variables
\* set; the module is the step's own copy: the flight plan's modules and the
\* other steps' modules are not changed by it.
C16_StepModuleIsBoundCopy ==
    (Returned /\ DecodesSteps(DecodeTarget)) =>
        /\ StepsInDeclaredOrder
        /\ StepsOwnTheirModules
        /\ \A i \in DOMAIN scenarioBlocks :
             \A n \in DOMAIN scenarioBlocks[i].Scenarios :
               \A k \in DOMAIN scenarioBlocks[i].Scenarios[n].Steps :
                 LET m == modules[scenarioBlocks[i].Scenarios[n].Steps[k].Module]
                     decl == blocks[scenarioBlocks[i].Block].steps[k]
                     fm == FlightPlanModules[decl.module]
                 IN /\ m.Name = fm.Name
                    /\ m.Source = fm.Source
                    /\ m.Version = fm.Version
                    /\ DOMAIN m.Attrs = DOMAIN fm.Attrs \cup DOMAIN decl.variables
                    /\ \A x \in DOMAIN fm.Attrs \ DOMAIN decl.variables :
                         m.Attrs[x] = fm.Attrs[x]
                    /\ \A x \in DOMAIN decl.variables : m.Attrs[x] = decl.variables[x]

\* two steps on module backend, the first overriding driver: the second step
\* and the flight plan still have driver = postgres
C16_Witness ==
    /\ Returned
    /\ DecodesSteps(DecodeTarget)
    /\ Len(scenarioBlocks) = 1
    /\ Len(scenarioBlocks[1].Scenarios) = 2
    /\ blocks[1].steps = << StepBlock(First, "backend", FALSE, FALSE, Vars("driver", "mysql")),
                            ValidStep(Second, "backend") >>
    /\ LET steps == scenarioBlocks[1].Scenarios[1].Steps
       IN /\ Len(steps) = 2
          /\ modules[steps[1].Module].Attrs["driver"] = "mysql"
          /\ modules[steps[2].Module].Attrs["driver"] = "postgres"
          /\ modules[ModuleAddr("backend")].Attrs["driver"] = "postgres"

\* the vectors of the matrices, one after the other
RECURSIVE AllVectors(_)
AllVectors(ms) ==
    IF ms = <<>> THEN <<>>
    ELSE (IF Head(ms).nil THEN <<>> ELSE Head(ms).Vectors) \o AllVectors(Tail(ms))

\* C21: CombinedMatrix succeeds also when some block has no Matrix, returns
\* the value-unique vectors of all blocks' matrices, and leaves every block's
\* Matrix with the vectors it had before the call.
C21_CombinedMatrixLeavesBlocks ==
    combined.called =>
        /\ ~combined.panicked
        /\ \A i \in DOMAIN scenarioBlocks : scenarioBlocks[i].Matrix = combined.before[i]
        /\ (\E i \in DOMAIN combined.before : ~combined.before[i].nil) =>
             combined.result = UniqueValues(NewMatrix(AllVectors(combined.before)))

\* C22: appendSourceSnippets slices the code only with offsets such that
\* 0 <= start <= end <= len(code), whatever the two offsets of the snippet.
C22_SliceOffsetsOrdered ==
    (renderOut.called /\ renderOut.sliced) =>
        /\ 0 <= renderOut.start
        /\ renderOut.start <= renderOut.end
        /\ renderOut.end <= Len(renderIn.Code)

\* the offsets are in order whenever the start offset is not the largest int
C22_OrderedBelowMaxInt ==
    (renderOut.called /\ renderOut.sliced /\ renderIn.HighlightStartOffset < MaxInt) =>
        /\ 0 <= renderOut.start
        /\ renderOut.start <= renderOut.end
        /\ renderOut.end <= Len(renderIn.Code)

\* output diagnostic i carries input diagnostic i: severity, summary, detail,
\* and the range and snippet fields of the input where it has them
TFTranslated(din, d) ==
    /\ d.Severity = (IF din.Severity = "error" THEN "SEVERITY_ERROR"
                     ELSE IF din.Severity = "warning" THEN "SEVERITY_WARNING"
                     ELSE "SEVERITY_UNKNOWN")
    /\ d.Summary = din.Summary
    /\ d.Detail = din.Detail
    /\ din.Range # <<>> => d.Range = din.Range[1]
    /\ din.Snippet # <<>> =>
         /\ d.Snippet.Code = din.Snippet[1].Code
         /\ d.Snippet.StartLine = din.Snippet[1].StartLine
         /\ d.Snippet.HighlightStartOffset = din.Snippet[1].HighlightStartOffset
         /\ d.Snippet.HighlightEndOffset = din.Snippet[1].HighlightEndOffset
         /\ d.Snippet.Values = din.Snippet[1].Values
         /\ din.Snippet[1].Context # <<>> => d.Snippet.Context = din.Snippet[1].Context[1]

\* C23: FromTFJSON returns, for every input (also one without a range, a
\* snippet or a snippet context), one diagnostic per input diagnostic, in input
\* order, with the input's severity, summary, detail, range and snippet.
C23_FromTFJSONTranslatesAll ==
    tfOut.called =>
        /\ ~tfOut.panicked
        /\ Len(tfOut.out) = Len(tfIn)
        /\ \A i \in DOMAIN tfIn : TFTranslated(tfIn[i], tfOut.out[i])

\* the translation is as claimed for the inputs that have all three
C23_TranslatesCompleteInputs ==
    (tfOut.called /\ \A i \in DOMAIN tfIn : ~TFDereferencesNil(tfIn[i])) =>
        /\ ~tfOut.panicked
        /\ Len(tfOut.out) = Len(tfIn)
        /\ \A i \in DOMAIN tfIn : TFTranslated(tfIn[i], tfOut.out[i])

====
